---- MODULE Spec2Model ----
(***************************************************************************)
(* A model of tidy_HL7_msgs: the location parser (parse_loc_txt), the      *)
(* segment parser built by get_parser, the message-id resolver             *)
(* (parse_msg_id with helpers.concat), the reshaper (zip_msg_ids, to_df)   *)
(* and the joiner (join_dfs).                                              *)
(*                                                                         *)
(* A Python str is a sequence of one-character strings, so that split,     *)
(* int, join and the regular-expression scan are computed character by     *)
(* character.  numpy.nan is the value NaN.  A raised exception is the      *)
(* record [raised |-> <exception class>], possibly with more fields; a     *)
(* returned list v is the record [returned |-> v].                         *)
(*                                                                         *)
(* Every function of the program is pure; the state is the arguments of a  *)
(* call, its position (pc) and what it returned.  Each component has its   *)
(* own specification (SpecParse, SpecExtract, SpecResolve, SpecReshape,    *)
(* SpecJoin) over the same variables; a variable a component does not use  *)
(* stays Unused.                                                           *)
(***************************************************************************)
EXTENDS Integers, Sequences, FiniteSets, TLC

VARIABLES
    pc,           \* position of the call: "call", "parsed", "zipped", "done"
    loc_txt,      \* parse_loc_txt / parse_msgs / to_df: the location text
    loc,          \* what parse_loc_txt returned (or raised)
    msg,          \* parser: the message
    data,         \* what parser returned (or raised)
    id_locs_txt,  \* parse_msg_id: the identity locations
    msgs,         \* parse_msg_id: the messages
    msg_ids,      \* what parse_msg_id returned (or raised); zip_msg_ids' ids
    lst,          \* zip_msg_ids: the per-message value lists
    zipped,       \* what zip_msg_ids returned (or raised)
    df,           \* what to_df / join_dfs returned (or raised)
    tables,       \* join_dfs: the list the outermost call was given
    dfs,          \* join_dfs: the list of the current (recursive) call
    merges        \* history: the pd.merge calls made so far, in order

vars == <<pc, loc_txt, loc, msg, data, id_locs_txt, msgs, msg_ids, lst, df,
          zipped, tables, dfs, merges>>

Unused == <<>>

\* numpy.nan, the missing marker: a tuple no str (sequence of characters) equals
NaN == <<"nan">>

Raise(e) == [raised |-> e]

\* a list a call returned (a dict or a table returned is its record itself)
Return(v) == [returned |-> v]

Raised(r) == "raised" \in DOMAIN r

-----------------------------------------------------------------------------
(* Python str and list primitives                                          *)

\* str.split(sep) for a one-character sep: always at least one part
RECURSIVE Split(_, _)
Split(s, sep) ==
    IF \A i \in 1..Len(s) : s[i] # sep
    THEN <<s>>
    ELSE LET i == CHOOSE k \in 1..Len(s) :
                      s[k] = sep /\ \A j \in 1..(k - 1) : s[j] # sep
         IN  <<SubSeq(s, 1, i - 1)>> \o Split(SubSeq(s, i + 1, Len(s)), sep)

\* sep.join(parts)
RECURSIVE Join(_, _)
Join(parts, sep) ==
    IF Len(parts) = 0 THEN <<>>
    ELSE IF Len(parts) = 1 THEN parts[1]
    ELSE parts[1] \o <<sep>> \o Join(Tail(parts), sep)

Digits == {"0", "1", "2", "3", "4", "5", "6", "7", "8", "9"}

DigitVal(c) ==
    CASE c = "0" -> 0 [] c = "1" -> 1 [] c = "2" -> 2 [] c = "3" -> 3
      [] c = "4" -> 4 [] c = "5" -> 5 [] c = "6" -> 6 [] c = "7" -> 7
      [] c = "8" -> 8 [] c = "9" -> 9

\* int(s) accepts: an optional sign, then one or more decimal digits (the
\* characters of the model hold no whitespace, "+" or "_")
IsIntLiteral(s) ==
    LET body == IF Len(s) > 0 /\ s[1] = "-" THEN Tail(s) ELSE s
    IN  Len(body) > 0 /\ \A i \in 1..Len(body) : body[i] \in Digits

RECURSIVE DecimalValue(_)
DecimalValue(ds) ==
    IF Len(ds) = 0 THEN 0
    ELSE 10 * DecimalValue(SubSeq(ds, 1, Len(ds) - 1)) + DigitVal(ds[Len(ds)])

\* int(s) for an s that IsIntLiteral
int(s) ==
    IF s[1] = "-" THEN 0 - DecimalValue(Tail(s)) ELSE DecimalValue(s)

\* lst[i] with Python's indexing (0-based, negative from the end):
\* the 1-based position, or 0 for IndexError
PyIndex(n, i) ==
    IF 0 <= i /\ i < n THEN i + 1
    ELSE IF i < 0 /\ 0 - i <= n THEN n + i + 1
    ELSE 0

-----------------------------------------------------------------------------
(* parsers.parse_loc_txt                                                   *)

MSH == <<"M", "S", "H">>

\* the header-segment shift of the field index, dropped
HeaderShift_dropped(seg, field) == field

\* if loc['seg'] == "MSH": loc['field'] -= 1
HeaderShift(seg, field) == IF seg = MSH THEN field - 1 ELSE field

parse_loc_txt(txt) ==
    LET loc_split == Split(txt, ".")
        depth     == Len(loc_split)
    IN  IF depth \notin {2, 3} THEN Raise("ValueError")
        ELSE IF ~IsIntLiteral(loc_split[2]) THEN Raise("ValueError")
        ELSE LET seg   == loc_split[1]
                 field == HeaderShift(seg, int(loc_split[2]))
             IN  IF depth = 3
                 THEN IF ~IsIntLiteral(loc_split[3]) THEN Raise("ValueError")
                      ELSE [depth |-> depth, seg |-> seg, field |-> field,
                            comp |-> int(loc_split[3]) - 1]
                 ELSE [depth |-> depth, seg |-> seg, field |-> field]

-----------------------------------------------------------------------------
(* SpecParse: parse_loc_txt on every location text of LocTexts             *)

MaxTail == 5

RECURSIVE SeqsUpTo(_, _)
SeqsUpTo(S, n) ==
    IF n = 0 THEN {<<>>}
    ELSE LET shorter == SeqsUpTo(S, n - 1)
         IN  shorter \cup {Append(s, c) : s \in {t \in shorter : Len(t) = n - 1}, c \in S}

DG1 == <<"D", "G", "1">>
PR1 == <<"P", "R", "1">>

\* the location texts of the tests and the docstrings
DocLocTexts ==
    { PR1 \o <<".", "3">>,
      DG1 \o <<".", "3", ".", "1">>,
      MSH \o <<".", "3", ".", "1">>,
      DG1,
      DG1 \o <<".", "2", ".", "3", ".", "4">> }

LocTexts ==
    DocLocTexts \cup
    { seg \o tail : seg \in {<<>>, MSH, DG1},
                    tail \in SeqsUpTo({".", "0", "1", "3", "-", "x"}, MaxTail) }

InitParse ==
    /\ pc = "call"
    /\ loc_txt \in LocTexts
    /\ loc = Unused
    /\ msg = Unused /\ data = Unused
    /\ id_locs_txt = Unused /\ msgs = Unused /\ msg_ids = Unused
    /\ lst = Unused /\ df = Unused
    /\ zipped = Unused /\ tables = Unused /\ dfs = Unused /\ merges = Unused

CallParseLocTxt ==
    /\ pc = "call"
    /\ loc' = parse_loc_txt(loc_txt)
    /\ pc' = "done"
    /\ UNCHANGED <<loc_txt, msg, data, id_locs_txt, msgs, msg_ids, lst, df,
                   zipped, tables, dfs, merges>>

NextParse == CallParseLocTxt

SpecParse == InitParse /\ [][NextParse]_vars

\* the reference of C6, stated on the parts of the text
RefParts == Split(loc_txt, ".")

RefMalformed ==
    \/ Len(RefParts) \notin {2, 3}
    \/ ~IsIntLiteral(RefParts[2])
    \/ Len(RefParts) = 3 /\ ~IsIntLiteral(RefParts[3])

C10_FieldNonNegative ==
    (pc = "done" /\ ~Raised(loc)) => loc.field >= 0

-----------------------------------------------------------------------------
(* parsers.get_parser: the parser closure                                  *)

NL == "\n"

IsPrefixAt(pat, s, pos) ==
    /\ pos + Len(pat) - 1 <= Len(s)
    /\ SubSeq(s, pos, pos + Len(pat) - 1) = pat

\* where '.*(?=\n)' ends for a match whose literal part ends before `from`:
\* the position of the first newline at or after `from`, or 0 when the text
\* ends first (the lookahead fails however far '.*' backtracks)
LineEnd(s, from) ==
    IF \E e \in from..Len(s) : s[e] = NL
    THEN CHOOSE e \in from..Len(s) :
             s[e] = NL /\ \A j \in from..(e - 1) : s[j] # NL
    ELSE 0

\* re.findall(<literal pat> + '.*(?=\n)', s), scanning from position pos:
\* a match may start anywhere; the scan resumes where the match ended
RECURSIVE FindAll(_, _, _)
FindAll(pat, s, pos) ==
    IF pos > Len(s) THEN <<>>
    ELSE LET end == LineEnd(s, pos + Len(pat))
         IN  IF IsPrefixAt(pat, s, pos) /\ end # 0
             THEN <<SubSeq(s, pos, end - 1)>> \o FindAll(pat, s, end)
             ELSE FindAll(pat, s, pos + 1)

\* the body of the loop over segs: the value appended to data for one seg
SegValue(l, seg, field_sep, comp_sep) ==
    LET seg_split == Split(seg, field_sep)
        f == PyIndex(Len(seg_split), l.field)
    IN  IF f = 0 THEN NaN
        ELSE IF l.depth = 2 THEN seg_split[f]
        ELSE LET comps == Split(seg_split[f], comp_sep)
                 c == PyIndex(Len(comps), l.comp)
             IN  IF c = 0 THEN NaN ELSE comps[c]

\* the segments the parser splits: segs of parser
MatchedSegs(l, m) == FindAll(l.seg \o <<m[4]>>, m, 1)

parser(l, m) ==
    IF Len(m) < 5 THEN Raise("ValueError")
    ELSE LET field_sep == m[4]
             comp_sep  == m[5]
             segs      == MatchedSegs(l, m)
         IN  Return([i \in 1..Len(segs) |->
                        SegValue(l, segs[i], field_sep, comp_sep)])

\* parse_msgs for one message: the parser of the parsed location, applied
parse_msg(txt, m) ==
    LET l == parse_loc_txt(txt)
    IN  IF Raised(l) THEN l ELSE parser(l, m)

-----------------------------------------------------------------------------
(* SpecExtract: parse_msgs on one location text and one message            *)

MaxLines == 2

AL1 == <<"A", "L", "1">>

ExtractLocTexts ==
    { seg \o <<".", f>> : seg \in {AL1, MSH}, f \in {"0", "1", "2", "3"} }
    \cup
    { seg \o <<".", f, ".", c>> :
          seg \in {AL1, MSH}, f \in {"0", "1", "2", "3"}, c \in {"0", "1", "2", "3"} }

\* the header line declares the separators at offsets 3 and 4
HeaderLine == <<"M", "S", "H", "|", "^">>

SegmentLines ==
    { <<"A", "L", "1", "|", "1", "|", "a", "^", "b">>,
      <<"A", "L", "1", "|", "2">>,
      <<"Z", "A", "L", "1", "|", "3", "|", "c">>,
      <<"P", "I", "D", "|", "A", "L", "1", "|", "d", "^", "e">>,
      <<"P", "I", "D", "|", "7">>,
      <<"A", "L", "1">> }

LineSeqs == UNION { [1..n -> SegmentLines] : n \in 0..MaxLines }

\* a header line and up to MaxLines segment lines, the last line terminated
\* by a newline or not
Messages ==
    { Join(<<HeaderLine>> \o ls, NL) \o end : ls \in LineSeqs, end \in {<<>>, <<NL>>} }

InitExtract ==
    /\ pc = "call"
    /\ loc_txt \in ExtractLocTexts
    /\ msg \in Messages
    /\ loc = Unused /\ data = Unused
    /\ id_locs_txt = Unused /\ msgs = Unused /\ msg_ids = Unused
    /\ lst = Unused /\ df = Unused
    /\ zipped = Unused /\ tables = Unused /\ dfs = Unused /\ merges = Unused

\* loc = parse_loc_txt(loc_txt)
ParseMsgsLoc ==
    /\ pc = "call"
    /\ loc' = parse_loc_txt(loc_txt)
    /\ pc' = IF Raised(loc') THEN "done" ELSE "parsed"
    /\ data' = IF Raised(loc') THEN loc' ELSE data
    /\ UNCHANGED <<loc_txt, msg, id_locs_txt, msgs, msg_ids, lst, df,
                   zipped, tables, dfs, merges>>

\* parser = get_parser(loc); parser(msg)
ParseMsgsApply ==
    /\ pc = "parsed"
    /\ data' = parser(loc, msg)
    /\ pc' = "done"
    /\ UNCHANGED <<loc_txt, loc, msg, id_locs_txt, msgs, msg_ids, lst, df,
                   zipped, tables, dfs, merges>>

NextExtract == ParseMsgsLoc \/ ParseMsgsApply

SpecExtract == InitExtract /\ [][NextExtract]_vars

\* the lines of the message (runs of characters between newlines) that begin
\* with segment + field separator, in document order
BeginsWithSegment(line) == IsPrefixAt(loc.seg \o <<msg[4]>>, line, 1)

RefSegmentLines == SelectSeq(Split(msg, NL), BeginsWithSegment)

\* C4: the parser returns exactly one entry per line of the message that
\* begins with segment + field separator, in document order, and none for
\* any other line, whether or not the last line ends with a newline.
C4_OneEntryPerSegmentLine ==
    (pc = "done" /\ ~Raised(loc)) =>
      /\ ~Raised(data)
      /\ Len(data.returned) = Len(RefSegmentLines)
      /\ \A i \in 1..Len(data.returned) :
           data.returned[i] = SegValue(loc, RefSegmentLines[i], msg[4], msg[5])

\* the entry C5 states for one matched line
RefEntry(line) ==
    LET fields == Split(line, msg[4])
    IN  IF Len(fields) < loc.field + 1 THEN NaN
        ELSE IF loc.depth = 2 THEN fields[loc.field + 1]
        ELSE LET comps == Split(fields[loc.field + 1], msg[5])
             IN  IF loc.comp \notin 0..(Len(comps) - 1) THEN NaN
                 ELSE comps[loc.comp + 1]

\* C5: for every matched segment line the entry is the missing marker when
\* the line has fewer than field+1 fields or (depth 3) the component index
\* addresses no component of the field, and the addressed field or
\* component otherwise.  Stated for field >= 0, where the addressed field
\* does not depend on how a negative index is read.
C5_EntryOfMatchedLine ==
    (pc = "done" /\ ~Raised(loc) /\ loc.field >= 0) =>
      /\ ~Raised(data)
      /\ Len(data.returned) = Len(MatchedSegs(loc, msg))
      /\ \A i \in 1..Len(data.returned) :
           data.returned[i] = RefEntry(MatchedSegs(loc, msg)[i])

-----------------------------------------------------------------------------
(* parsers.parse_msgs, helpers.flatten, helpers.concat, parsers.parse_msg_id *)

\* list(map(parser, msgs)) for the parser of txt; the first exception raised
\* (by parse_loc_txt, then by the parser message by message) propagates
parse_msgs(txt, ms) ==
    LET l == parse_loc_txt(txt)
    IN  IF Raised(l) THEN l
        ELSE LET per_msg == [i \in 1..Len(ms) |-> parser(l, ms[i])]
             IN  IF \E i \in 1..Len(ms) : Raised(per_msg[i])
                 THEN per_msg[CHOOSE i \in 1..Len(ms) :
                                  Raised(per_msg[i])
                                  /\ \A k \in 1..(i - 1) : ~Raised(per_msg[k])]
                 ELSE Return([i \in 1..Len(ms) |-> per_msg[i].returned])

RECURSIVE flatten(_)
flatten(nested) ==
    IF Len(nested) = 0 THEN <<>> ELSE Head(nested) \o flatten(Tail(nested))

\* ",".join(el[i] for el in lsts): TypeError when an item is not a str
JoinIds(lsts, i) ==
    IF \E j \in 1..Len(lsts) : lsts[j][i] = NaN
    THEN Raise("TypeError")
    ELSE Return(Join([j \in 1..Len(lsts) |-> lsts[j][i]], ","))

concat(nested) ==
    LET lsts     == [j \in 1..Len(nested) |-> flatten(nested[j])]
        lst_lens == {Len(lsts[j]) : j \in 1..Len(lsts)}
    IN  IF Cardinality(lst_lens) # 1 THEN Raise("AssertionError")
        ELSE LET n      == Len(lsts[1])
                 joined == [i \in 1..n |-> JoinIds(lsts, i)]
             IN  IF \E i \in 1..n : Raised(joined[i])
                 THEN Raise("TypeError")
                 ELSE Return([i \in 1..n |-> joined[i].returned])

\* the uniqueness check, left out
IdsAreUnique_unchecked(concatted, ms) == TRUE

\* len(set(concatted)) != len(msgs), negated
IdsAreUnique(concatted, ms) ==
    Cardinality({concatted[i] : i \in 1..Len(concatted)}) = Len(ms)

\* all([len(id_val) == 1 for id_val in loc_ids])
AreLocIdsSingle(loc_ids) == \A i \in 1..Len(loc_ids) : Len(loc_ids[i]) = 1

\* itertools.compress(data, selectors)
RECURSIVE compress(_, _)
compress(items, selectors) ==
    IF Len(items) = 0 \/ Len(selectors) = 0 THEN <<>>
    ELSE (IF Head(selectors) THEN <<Head(items)>> ELSE <<>>)
         \o compress(Tail(items), Tail(selectors))

MultipleValues == "One or more ID locations have multiple values per message"

NotUnique == "Messages IDs are not unique"

parse_msg_id(locs_txt, ms) ==
    LET per_loc == [j \in 1..Len(locs_txt) |-> parse_msgs(locs_txt[j], ms)]
    IN  IF \E j \in 1..Len(locs_txt) : Raised(per_loc[j])
        THEN per_loc[CHOOSE j \in 1..Len(locs_txt) :
                         Raised(per_loc[j])
                         /\ \A k \in 1..(j - 1) : ~Raised(per_loc[k])]
        ELSE
        LET ids_per_loc == [j \in 1..Len(locs_txt) |-> per_loc[j].returned]
            are_loc_ids_single ==
                [j \in 1..Len(locs_txt) |-> AreLocIdsSingle(ids_per_loc[j])]
        IN  IF \E j \in 1..Len(locs_txt) : ~are_loc_ids_single[j]
            THEN [raised |-> "RuntimeError", message |-> MultipleValues,
                  id_locs |-> compress(locs_txt, are_loc_ids_single)]
            ELSE LET concatted == concat(ids_per_loc)
                 IN  IF Raised(concatted) THEN concatted
                     ELSE IF ~IdsAreUnique(concatted.returned, ms)
                     THEN [raised |-> "RuntimeError", message |-> NotUnique]
                     ELSE concatted

-----------------------------------------------------------------------------
(* SpecResolve: parse_msg_id on lists of identity locations and messages   *)

MaxIdLocs == 2
MaxMsgs == 2

PID == <<"P", "I", "D">>

IdLocTexts ==
    { PID \o <<".", "1">>, PID \o <<".", "2">>, AL1 \o <<".", "1">>, PID }

\* 'MSH|^' then the given segment lines, every line ended by a newline
Message(ls) == Join(<<HeaderLine>> \o ls, NL) \o <<NL>>

ResolveMessages ==
    { Message(<< <<"P", "I", "D", "|", "a", "|", "x">> >>),
      Message(<< <<"P", "I", "D", "|", "b", "|", "x">> >>),
      Message(<< <<"P", "I", "D", "|", "a">>,
                 <<"A", "L", "1", "|", "q">>, <<"A", "L", "1", "|", "r">> >>),
      Message(<< <<"A", "L", "1", "|", "q">> >>) }

InitResolve ==
    /\ pc = "call"
    /\ id_locs_txt \in UNION { [1..n -> IdLocTexts] : n \in 0..MaxIdLocs }
    /\ msgs \in UNION { [1..n -> ResolveMessages] : n \in 0..MaxMsgs }
    /\ msg_ids = Unused
    /\ loc_txt = Unused /\ loc = Unused /\ msg = Unused /\ data = Unused
    /\ lst = Unused /\ df = Unused
    /\ zipped = Unused /\ tables = Unused /\ dfs = Unused /\ merges = Unused

CallParseMsgId ==
    /\ pc = "call"
    /\ msg_ids' = parse_msg_id(id_locs_txt, msgs)
    /\ pc' = "done"
    /\ UNCHANGED <<loc_txt, loc, msg, data, id_locs_txt, msgs, lst, df,
                   zipped, tables, dfs, merges>>

NextResolve == CallParseMsgId

SpecResolve == InitResolve /\ [][NextResolve]_vars

\* what identity location j extracts from message i
Extracted(j, i) == parse_msg(id_locs_txt[j], msgs[i])

AllExtracted ==
    \A j \in 1..Len(id_locs_txt) : \A i \in 1..Len(msgs) : ~Raised(Extracted(j, i))

\* location j has a message whose occurrence list has a length other than 1
Offending(j) == \E i \in 1..Len(msgs) : Len(Extracted(j, i).returned) # 1

AllSingle ==
    /\ AllExtracted
    /\ \A j \in 1..Len(id_locs_txt) : ~Offending(j)

\* the single values of message i, one per identity location, in their order
SingleValues(i) == [j \in 1..Len(id_locs_txt) |-> Extracted(j, i).returned[1]]

\* C1: with at least one offending identity location, parse_msg_id fails
\* with the multiple-values error (AmbiguousIdentity) and the locations the
\* error names are exactly the offending ones.
C1_ErrorNamesOffendingLocations ==
    (pc = "done" /\ AllExtracted /\ \E j \in 1..Len(id_locs_txt) : Offending(j)) =>
      /\ Raised(msg_ids)
      /\ msg_ids.raised = "RuntimeError"
      /\ msg_ids.message = MultipleValues
      /\ {msg_ids.id_locs[k] : k \in 1..Len(msg_ids.id_locs)}
           = {id_locs_txt[j] : j \in {j \in 1..Len(id_locs_txt) : Offending(j)}}

\* two messages compute the same concatenated identifier
SameIdComputed ==
    /\ AllSingle
    /\ Len(id_locs_txt) >= 1
    /\ \A i \in 1..Len(msgs) : \A j \in 1..Len(id_locs_txt) : SingleValues(i)[j] # NaN
    /\ \E i, k \in 1..Len(msgs) :
         i # k /\ Join(SingleValues(i), ",") = Join(SingleValues(k), ",")

C3_IdsAreJoinedSingleValues ==
    ( /\ pc = "done"
      /\ Len(id_locs_txt) >= 1
      /\ Len(msgs) >= 1
      /\ AllSingle
      /\ \A i, k \in 1..Len(msgs) : i # k => SingleValues(i) # SingleValues(k) ) =>
      /\ ~Raised(msg_ids)
      /\ Len(msg_ids.returned) = Len(msgs)
      /\ \A i \in 1..Len(msgs) : msg_ids.returned[i] = Join(SingleValues(i), ",")

-----------------------------------------------------------------------------
(* helpers.zip_msg_ids, helpers.to_df                                      *)
(*                                                                         *)
(* A dataframe in long format is [labels |-> the names of its value        *)
(* columns, rows |-> its rows in order], a row being [msg_id, seg, vals]   *)
(* with one value per value column.                                        *)

\* assert are_lens_equal(msg_ids, lst); list(zip(msg_ids, lst))
zip_msg_ids(values, ids) ==
    IF Len(ids) # Len(values) THEN Raise("AssertionError")
    ELSE Return([i \in 1..Len(ids) |-> <<ids[i], values[i]>>])

\* the keys of dict(pairs), in insertion order (a repeated key keeps its place)
RECURSIVE DictKeys(_)
DictKeys(pairs) ==
    IF Len(pairs) = 0 THEN <<>>
    ELSE LET before == DictKeys(SubSeq(pairs, 1, Len(pairs) - 1))
             key    == pairs[Len(pairs)][1]
         IN  IF \E i \in 1..Len(before) : before[i] = key
             THEN before ELSE Append(before, key)

\* dict(pairs)[key]: the value paired with key last
DictValue(pairs, key) ==
    pairs[CHOOSE i \in 1..Len(pairs) :
              pairs[i][1] = key /\ \A k \in (i + 1)..Len(pairs) : pairs[k][1] # key][2]

DigitChar(d) == <<"0", "1", "2", "3", "4", "5", "6", "7", "8", "9">>[d + 1]

\* str(n) for n >= 0
RECURSIVE DecimalText(_)
DecimalText(n) ==
    IF n < 10 THEN <<DigitChar(n)>>
    ELSE Append(DecimalText(n \div 10), DigitChar(n % 10))

\* "seg_{n}".format(n=n)
SegName(n) == <<"s", "e", "g", "_">> \o DecimalText(n)

\* the number of columns, taken from the first message only
NCols_first(pairs) ==
    IF Len(pairs) = 0 THEN 0 ELSE Len(pairs[1][2])

\* the number of columns of DataFrame.from_dict(dict(lst), orient="index"):
\* the longest value list
NCols(pairs) ==
    LET keys == DictKeys(pairs)
        lens == {Len(DictValue(pairs, keys[i])) : i \in 1..Len(keys)}
    IN  IF lens = {} THEN 0 ELSE CHOOSE m \in lens : \A n \in lens : n <= m

\* the cell of row key, column c (0-based) of that frame: a short list is
\* padded with the missing marker
Cell(pairs, key, c) ==
    LET values == DictValue(pairs, key)
    IN  IF c < Len(values) THEN values[c + 1] ELSE NaN

\* from_dict, the seg_n column names, the msg_id column, melt (column by
\* column, the rows of the frame in index order within each) and rename
to_df(pairs, label) ==
    LET keys   == DictKeys(pairs)
        n_rows == Len(keys)
        n_cols == NCols(pairs)
    IN  [labels |-> <<label>>,
         rows   |-> [n \in 1..(n_rows * n_cols) |->
                       LET c == (n - 1) \div n_rows
                           r == ((n - 1) % n_rows) + 1
                       IN  [msg_id |-> keys[r],
                            seg    |-> SegName(c),
                            vals   |-> <<Cell(pairs, keys[r], c)>>]]]

-----------------------------------------------------------------------------
(* SpecReshape: zip_msg_ids, then to_df                                    *)

MaxIds == 2
MaxOcc == 2

LabelA == <<"A", ".", "1">>

IdPool == {<<"m", "1">>, <<"m", "2">>, <<"m", "3">>}

ValuePool == {<<"u">>, NaN}

ValueLists == UNION { [1..n -> ValuePool] : n \in 0..MaxOcc }

InitReshape ==
    /\ pc = "call"
    /\ msg_ids \in UNION { [1..n -> IdPool] : n \in 0..MaxIds }
    /\ lst \in UNION { [1..n -> ValueLists] : n \in 0..MaxIds }
    /\ loc_txt = LabelA
    /\ zipped = Unused /\ df = Unused
    /\ loc = Unused /\ msg = Unused /\ data = Unused
    /\ id_locs_txt = Unused /\ msgs = Unused
    /\ tables = Unused /\ dfs = Unused /\ merges = Unused

CallZipMsgIds ==
    /\ pc = "call"
    /\ zipped' = zip_msg_ids(lst, msg_ids)
    /\ pc' = IF Raised(zipped') THEN "done" ELSE "zipped"
    /\ df' = IF Raised(zipped') THEN zipped' ELSE df
    /\ UNCHANGED <<loc_txt, loc, msg, data, id_locs_txt, msgs, msg_ids, lst,
                   tables, dfs, merges>>

CallToDf ==
    /\ pc = "zipped"
    /\ df' = to_df(zipped.returned, loc_txt)
    /\ pc' = "done"
    /\ UNCHANGED <<loc_txt, loc, msg, data, id_locs_txt, msgs, msg_ids, lst,
                   zipped, tables, dfs, merges>>

NextReshape == CallZipMsgIds \/ CallToDf

SpecReshape == InitReshape /\ [][NextReshape]_vars

DistinctIds == \A i, k \in 1..Len(msg_ids) : i # k => msg_ids[i] # msg_ids[k]

\* M: the maximum list length over all messages of the call
MaxListLen ==
    IF Len(lst) = 0 THEN 0
    ELSE CHOOSE m \in {Len(lst[i]) : i \in 1..Len(lst)} :
             \A i \in 1..Len(lst) : Len(lst[i]) <= m

RowsAt(i, k) ==
    {n \in 1..Len(df.rows) :
        df.rows[n].msg_id = msg_ids[i] /\ df.rows[n].seg = SegName(k)}

\* C7: for distinct message ids paired one-to-one with value lists, the
\* frame has exactly one row per message id and occurrence index k in
\* 0..M-1 and no other row, M being the longest list of the call; the row's
\* value is the message's k-th value when it has one and the missing marker
\* otherwise.
C7_OneRowPerIdAndOccurrence ==
    (pc = "done" /\ DistinctIds /\ Len(msg_ids) = Len(lst)) =>
      /\ ~Raised(df)
      /\ df.labels = <<loc_txt>>
      /\ Len(df.rows) = Len(msg_ids) * MaxListLen
      /\ \A i \in 1..Len(msg_ids) : \A k \in 0..(MaxListLen - 1) :
           /\ Cardinality(RowsAt(i, k)) = 1
           /\ \A n \in RowsAt(i, k) :
                df.rows[n].vals =
                  << IF k < Len(lst[i]) THEN lst[i][k + 1] ELSE NaN >>

\* a message with fewer values than another has been padded
C7_Witness ==
    /\ pc = "done"
    /\ DistinctIds
    /\ Len(msg_ids) = 2
    /\ Len(lst) = 2
    /\ Len(lst[1]) = 2
    /\ lst[2] = << <<"u">> >>
    /\ ~Raised(df)
    /\ Len(df.rows) = 4
    /\ df.rows[4].vals = <<NaN>>

-----------------------------------------------------------------------------
(* pd.merge(left, right, how="inner", on=["msg_id", "seg"], sort=False) and *)
(* helpers.join_dfs                                                        *)

SameKey(a, b) == a.msg_id = b.msg_id /\ a.seg = b.seg

\* a value column named in both frames takes the suffix
Suffixed(labels, others, suffix) ==
    [i \in 1..Len(labels) |->
        IF \E k \in 1..Len(others) : others[k] = labels[i]
        THEN labels[i] \o suffix ELSE labels[i]]

\* the rows left_row makes: one per row of right with its key, in right's order
RECURSIVE MatchesOf(_, _)
MatchesOf(left_row, right_rows) ==
    IF Len(right_rows) = 0 THEN <<>>
    ELSE (IF SameKey(left_row, Head(right_rows))
          THEN <<[msg_id |-> left_row.msg_id, seg |-> left_row.seg,
                  vals |-> left_row.vals \o Head(right_rows).vals]>>
          ELSE <<>>)
         \o MatchesOf(left_row, Tail(right_rows))

RECURSIVE InnerRows(_, _)
InnerRows(left_rows, right_rows) ==
    IF Len(left_rows) = 0 THEN <<>>
    ELSE MatchesOf(Head(left_rows), right_rows)
         \o InnerRows(Tail(left_rows), right_rows)

\* how="left": a row of left with no match is kept, its right values missing
RECURSIVE LeftRows(_, _, _)
LeftRows(left_rows, right_rows, width) ==
    IF Len(left_rows) = 0 THEN <<>>
    ELSE LET l == Head(left_rows)
             m == MatchesOf(l, right_rows)
         IN  (IF Len(m) = 0
              THEN <<[msg_id |-> l.msg_id, seg |-> l.seg,
                      vals |-> l.vals \o [i \in 1..width |-> NaN]]>>
              ELSE m)
             \o LeftRows(Tail(left_rows), right_rows, width)

merge_left(left, right) ==
    [labels |-> Suffixed(left.labels, right.labels, <<"_", "x">>)
                \o Suffixed(right.labels, left.labels, <<"_", "y">>),
     rows   |-> LeftRows(left.rows, right.rows, Len(right.labels))]

\* the inner join: the keys of both frames, in the order of the left keys
merge(left, right) ==
    [labels |-> Suffixed(left.labels, right.labels, <<"_", "x">>)
                \o Suffixed(right.labels, left.labels, <<"_", "y">>),
     rows   |-> InnerRows(left.rows, right.rows)]

-----------------------------------------------------------------------------
(* SpecJoin: join_dfs, one action per (recursive) call                     *)

MaxTables == 3

LabelB == <<"B", ".", "2">>
LabelC == <<"C", ".", "3">>

M1 == <<"m", "1">>
M2 == <<"m", "2">>
U == <<"u">>
V == <<"v">>

\* the (message id, value list) pairs the frames of the pool are made of
PairsPool ==
    { << <<M1, <<U>>>>, <<M2, <<U, V>>>> >>,
      << <<M2, <<V, NaN>>>>, <<M1, <<V, U>>>> >>,
      << <<M1, <<V, U, U>>>> >>,
      << <<M1, <<>>>>, <<M2, <<>>>> >> }

\* frames to_df returns
TablePool ==
    { to_df(pairs, label) : pairs \in PairsPool, label \in {LabelA, LabelB, LabelC} }

InitJoin ==
    /\ pc = "call"
    /\ tables \in UNION { [1..n -> TablePool] : n \in 0..MaxTables }
    /\ dfs = tables
    /\ merges = <<>>
    /\ df = Unused
    /\ loc_txt = Unused /\ loc = Unused /\ msg = Unused /\ data = Unused
    /\ id_locs_txt = Unused /\ msgs = Unused /\ msg_ids = Unused
    /\ lst = Unused /\ zipped = Unused

\* if len(dfs) == 1: return dfs[0]
JoinDfsReturn ==
    /\ pc = "call"
    /\ Len(dfs) = 1
    /\ df' = dfs[1]
    /\ pc' = "done"
    /\ UNCHANGED <<loc_txt, loc, msg, data, id_locs_txt, msgs, msg_ids, lst,
                   zipped, tables, dfs, merges>>

\* else: df_join = pd.merge(dfs[0], dfs[1], ...); dfs_to_join = dfs[2:];
\* dfs_to_join.append(df_join); return join_dfs(dfs_to_join)
JoinDfsMerge ==
    /\ pc = "call"
    /\ Len(dfs) >= 2
    /\ LET df_join == merge(dfs[1], dfs[2])
       IN  /\ dfs' = Append(SubSeq(dfs, 3, Len(dfs)), df_join)
           /\ merges' = Append(merges, [left |-> dfs[1], right |-> dfs[2]])
    /\ UNCHANGED <<pc, loc_txt, loc, msg, data, id_locs_txt, msgs, msg_ids,
                   lst, zipped, tables, df>>

\* else: dfs[0] of an empty list
JoinDfsIndexError ==
    /\ pc = "call"
    /\ Len(dfs) = 0
    /\ df' = Raise("IndexError")
    /\ pc' = "done"
    /\ UNCHANGED <<loc_txt, loc, msg, data, id_locs_txt, msgs, msg_ids, lst,
                   zipped, tables, dfs, merges>>

NextJoin == JoinDfsReturn \/ JoinDfsMerge \/ JoinDfsIndexError

SpecJoin == InitJoin /\ [][NextJoin]_vars

KeyOf(row) == <<row.msg_id, row.seg>>

Keys(t) == {KeyOf(t.rows[n]) : n \in 1..Len(t.rows)}

\* the values of key in table t, one per value column (keys are unique in t)
ValsAt(t, key) ==
    t.rows[CHOOSE n \in 1..Len(t.rows) : KeyOf(t.rows[n]) = key].vals

CountIn(seq, v) == Cardinality({i \in 1..Len(seq) : seq[i] = v})

\* the position of the column of df named as input table i names its column
ColumnOf(i) ==
    CHOOSE c \in 1..Len(df.labels) : df.labels[c] = tables[i].labels[1]

DistinctLabels ==
    \A i, k \in 1..Len(tables) :
        i # k => tables[i].labels[1] # tables[k].labels[1]

\* C8: for a non-empty list of tables, each with unique keys, join_dfs makes
\* one merge per table after the first and then returns (every call is on a
\* non-empty list one shorter than the last); the keys of the result are
\* unique and are exactly the keys common to all the tables; each carries
\* one value per table, the values the key had in the tables (under the
\* table's own column name when the names differ); one table is returned
\* unchanged.
C8_JoinIsKeyIntersection ==
    Len(tables) >= 1 =>
      /\ Len(dfs) >= 1
      /\ Len(dfs) + Len(merges) = Len(tables)
      /\ pc = "done" =>
           /\ ~Raised(df)
           /\ Len(dfs) = 1
           /\ Keys(df) = {key \in Keys(tables[1]) :
                            \A i \in 1..Len(tables) : key \in Keys(tables[i])}
           /\ Cardinality(Keys(df)) = Len(df.rows)
           /\ Len(df.labels) = Len(tables)
           /\ \A n \in 1..Len(df.rows) :
                LET row == df.rows[n]
                    had == [i \in 1..Len(tables) |-> ValsAt(tables[i], KeyOf(row))[1]]
                IN  /\ Len(row.vals) = Len(tables)
                    /\ \A i \in 1..Len(tables) :
                         CountIn(row.vals, had[i]) = CountIn(had, had[i])
                    /\ DistinctLabels =>
                         \A i \in 1..Len(tables) : row.vals[ColumnOf(i)] = had[i]
           /\ Len(tables) = 1 => df = tables[1]

\* three tables joined: some keys survive, some of the first table do not
C8_Witness ==
    /\ pc = "done"
    /\ Len(tables) = 3
    /\ DistinctLabels
    /\ ~Raised(df)
    /\ Len(df.rows) >= 1
    /\ Len(df.rows) < Len(tables[1].rows)

\* C9: for three or more tables the merges are a left fold in input order:
\* the first merge is T1 with T2, and each later merge has the result of the
\* merge before it as its left operand and the next table T3, T4, ... as its
\* right operand; so the value columns of the result are in the order of the
\* input tables.  Stated for tables whose value columns have different names.
C9_LeftFoldInInputOrder ==
    (Len(tables) >= 3 /\ DistinctLabels) =>
      /\ \A j \in 1..Len(merges) :
           IF j = 1
           THEN merges[1].left = tables[1] /\ merges[1].right = tables[2]
           ELSE /\ merges[j].left = merge(merges[j - 1].left, merges[j - 1].right)
                /\ merges[j].right = tables[j + 1]
      /\ pc = "done" =>
           df.labels = [i \in 1..Len(tables) |-> tables[i].labels[1]]

====
